---- MODULE Spec2Model ----
(***************************************************************************)
(* Model of app.py of the resale dashboard: the module-level table df      *)
(* built from the CSV file, and the two callbacks that read it,            *)
(* update_heatmap (through generate_patient_volume_heatmap) and            *)
(* update_patient_volume_table.                                            *)
(*                                                                         *)
(* Time is counted in whole seconds from 00:00:00 of day 0, a Monday: the  *)
(* CSV format "%Y-%m-%d %I:%M:%S %p" carries no fraction of a second.      *)
(* "Number of Records" is a natural number; numpy adds the sums as         *)
(* float64, which is exact for such values.                                *)
(***************************************************************************)
EXTENDS Integers, Sequences, FiniteSets, TLC

VARIABLES df, call, out

vars == <<df, call, out>>

(* ------------------------------ bounds --------------------------------- *)

\* Largest number of rows of the CSV file.
MaxRecords == 2
\* Calendar days 0..MaxDay carry rows and can be picked in the date picker.
MaxDay == 1
\* "Number of Records" of a row is in 1..MaxCount.
MaxCount == 2

(* ------------------------- the CSV file's rows -------------------------- *)

NaN == "NaN"

ClinicNames == {"A", "B"}

AdmitSources == {"X", NaN}

\* Times of day found in the "Check-In Time" column, as the fields of
\* "%I:%M:%S %p": midnight, a quarter past eight, one second to midnight.
ClockTimes ==
    { [I |-> 12, M |-> 0,  S |-> 0,  p |-> "AM"],
      [I |-> 8,  M |-> 15, S |-> 0,  p |-> "AM"],
      [I |-> 11, M |-> 59, S |-> 59, p |-> "PM"] }

CheckInStrings == { [date |-> d, clock |-> c] : d \in 0..MaxDay, c \in ClockTimes }

CsvRows ==
    { ("Clinic Name" :> c) @@ ("Admit Source" :> a) @@ ("Check-In Time" :> t)
        @@ ("Number of Records" :> n) :
        c \in ClinicNames, a \in AdmitSources, t \in CheckInStrings, n \in 1..MaxCount }

SeqsUpTo(S, n) == UNION { [1..k -> S] : k \in 0..n }

CsvFiles == SeqsUpTo(CsvRows, MaxRecords)

(* ----------------------------- datetime -------------------------------- *)

\* dt.strptime(x, "%Y-%m-%d %I:%M:%S %p")
strptime(x) ==
    x.date * 86400
      + ((x.clock.I % 12) + (IF x.clock.p = "PM" THEN 12 ELSE 0)) * 3600
      + x.clock.M * 60 + x.clock.S

day_list ==
    << "Monday", "Tuesday", "Wednesday", "Thursday", "Friday", "Saturday", "Sunday" >>

\* dt.strftime(x, "%A")
strftime_A(x) == day_list[((x \div 86400) % 7) + 1]

\* dt.strftime(x, "%I %p"): the hour on the 12-hour clock and AM or PM.
strftime_I_p(x) ==
    LET hour == (x % 86400) \div 3600
    IN  << IF hour % 12 = 0 THEN 12 ELSE hour % 12, IF hour < 12 THEN "AM" ELSE "PM" >>

(* ------------------------------- load ---------------------------------- *)

\* One row of df after the module's top-level statements have run.
LoadRow(row) ==
    LET t == strptime(row["Check-In Time"])
    IN  ("Clinic Name" :> row["Clinic Name"])
        @@ ("Admit Source" :>
              IF row["Admit Source"] = NaN THEN "Not Identified" ELSE row["Admit Source"])
        @@ ("Check-In Time" :> t)
        @@ ("Days of Wk" :> strftime_A(t))
        @@ ("Check-In Hour" :> strftime_I_p(t))
        @@ ("Number of Records" :> row["Number of Records"])

Load(csv) == [i \in DOMAIN csv |-> LoadRow(csv[i])]

(* ------------------------ pandas and numpy ----------------------------- *)

\* isin with an empty list of values taken for "any value".
isin_or_empty(v, values) == values = << >> \/ \E i \in DOMAIN values : values[i] = v

\* Series.isin(values)
isin(v, values) == \E i \in DOMAIN values : values[i] = v

\* The mask without its second operand: df[df["Clinic Name"] == clinic]
clinic_rows_any_admit(d, clinic, admit_type) ==
    SelectSeq(d, LAMBDA r : r["Clinic Name"] = clinic)

\* df[(df["Clinic Name"] == clinic) & (df["Admit Source"].isin(admit_type))]
clinic_rows(d, clinic, admit_type) ==
    SelectSeq(d, LAMBDA r : r["Clinic Name"] = clinic /\ isin(r["Admit Source"], admit_type))

RECURSIVE insert_row(_, _)
\* r put into the sorted table d, after the rows that are not later than it.
insert_row(d, r) ==
    IF d = << >> THEN << r >>
    ELSE IF r["Check-In Time"] < Head(d)["Check-In Time"] THEN << r >> \o d
    ELSE << Head(d) >> \o insert_row(Tail(d), r)

RECURSIVE sort_values(_)
\* DataFrame.sort_values("Check-In Time")
sort_values(d) ==
    IF d = << >> THEN << >> ELSE insert_row(sort_values(SubSeq(d, 1, Len(d) - 1)), d[Len(d)])

is_monotonic(d) ==
    \A i \in 1..(Len(d) - 1) : d[i]["Check-In Time"] <= d[i + 1]["Check-In Time"]

\* The string a bound of the slice is, a picked date followed by " 00:00:00",
\* as pandas parses it: the instant, at the resolution of one second.
parse_bound(date) == date * 86400 + 0 * 3600 + 0 * 60 + 0

has_key(d, t) == \E i \in DOMAIN d : d[i]["Check-In Time"] = t

\* The slice with end taken for an instant that is itself left out.
slice_rows_end_excluded(d, start, end) ==
    [raised |-> FALSE,
     rows |-> SelectSeq(d, LAMBDA r : parse_bound(start) <= r["Check-In Time"]
                                      /\ r["Check-In Time"] < parse_bound(end))]

\* DataFrame.set_index("Check-In Time")[start:end], start and end strings. A
\* string of resolution one second stands for that whole second, so the slice
\* keeps the rows from the first instant of start's second to the last
\* instant of end's second. On an index that is not sorted pandas looks the
\* bounds up as keys and raises KeyError when one is missing.
slice_rows(d, start, end) ==
    LET lower == parse_bound(start)
        upper == parse_bound(end) + 1
    IN  IF ~is_monotonic(d) /\ ~(has_key(d, lower) /\ has_key(d, parse_bound(end)))
        THEN [raised |-> TRUE, rows |-> << >>]
        ELSE [raised |-> FALSE,
              rows |-> SelectSeq(d, LAMBDA r : lower <= r["Check-In Time"]
                                               /\ r["Check-In Time"] < upper)]

RECURSIVE sum_records(_)
\* d["Number of Records"].sum()
sum_records(d) ==
    IF d = << >> THEN 0 ELSE Head(d)["Number of Records"] + sum_records(Tail(d))

\* np.zeros((cols, rows)): the two dimensions the wrong way round.
np_zeros_swapped(rows, cols) == [r \in 0..(cols - 1) |-> [c \in 0..(rows - 1) |-> 0]]

\* np.zeros((rows, cols))
np_zeros(rows, cols) == [r \in 0..(rows - 1) |-> [c \in 0..(cols - 1) |-> 0]]

(* ------------------ generate_patient_volume_heatmap -------------------- *)

\* [strftime("%I %p") of i o'clock for i in range(7, 19)]
x_axis == [i \in 1..12 |-> strftime_I_p((i + 6) * 3600)]

y_axis == day_list

\* z = np.zeros((7, 24))
z_init == np_zeros(7, 24)

\* filtered_df of one pass of the loop over clinics.
filtered_df(d, clinic, admit_type, start, end) ==
    slice_rows(sort_values(clinic_rows(d, clinic, admit_type)), start, end)

\* filtered_day of one pass of the loop over y_axis.
filtered_day(fdf, ind_y) == SelectSeq(fdf, LAMBDA r : r["Days of Wk"] = y_axis[ind_y + 1])

\* The records of the whole day summed, the mask on the hour left out.
sum_of_record_whole_day(fday, ind_x) == sum_records(fday)

\* sum_of_record of one pass of the loop over x_axis.
sum_of_record(fday, ind_x) ==
    sum_records(SelectSeq(fday, LAMBDA r : r["Check-In Hour"] = x_axis[ind_x + 1]))

\* z[ind_y][ind_x] = sum_of_record: the cell overwritten.
add_to_cell_overwrite(old, sum) == sum

\* z[ind_y][ind_x] += sum_of_record
add_to_cell(old, sum) == old + sum

\* The two inner loops: every (ind_y, ind_x) of enumerate(y_axis) and
\* enumerate(x_axis) is visited once; the other cells of z stay as they are.
add_clinic(z, fdf) ==
    [r \in DOMAIN z |->
        IF r < Len(y_axis)
        THEN LET fday == filtered_day(fdf, r)
             IN  [c \in DOMAIN z[r] |->
                    IF c < Len(x_axis) THEN add_to_cell(z[r][c], sum_of_record(fday, c))
                    ELSE z[r][c]]
        ELSE z[r]]

\* z[ind_y][ind_x] raises IndexError when the index is outside the array.
index_error(z) ==
    \E ind_y \in 0..(Len(y_axis) - 1), ind_x \in 0..(Len(x_axis) - 1) :
        ind_y \notin DOMAIN z \/ ind_x \notin DOMAIN z[ind_y]

RECURSIVE clinics_loop(_, _, _, _, _, _)
\* for clinic in clinics: ...  from position i on, z the matrix so far.
clinics_loop(d, z, i, clinics, admit_type, bounds) ==
    IF i > Len(clinics) THEN [raised |-> FALSE, z |-> z]
    ELSE LET f == filtered_df(d, clinics[i], admit_type, bounds[1], bounds[2])
         IN  IF f.raised \/ index_error(z) THEN [raised |-> TRUE]
             ELSE clinics_loop(d, add_clinic(z, f.rows), i + 1, clinics, admit_type, bounds)

\* The figure generate_patient_volume_heatmap returns, of which the trace of
\* the heatmap is kept: the layout is the same dictionary in every call. d is
\* the table df and z0 the array z the loop starts from.
generate_patient_volume_heatmap(d, z0, start, end, clinics, admit_type) ==
    LET res == clinics_loop(d, z0, 1, clinics, admit_type, << start, end >>)
    IN  IF res.raised THEN [raised |-> TRUE]
        ELSE [raised |-> FALSE, data |-> [x |-> x_axis, y |-> y_axis, z |-> res.z]]

(* ------------------------------ callbacks ------------------------------ *)

\* What the date picker hands over: a calendar date.
Dates == 0..MaxDay

\* A multi-select dropdown hands over its chosen options, each once, in the
\* order they were chosen; cleared, it hands over the empty list.
Selections(S) ==
    { s \in SeqsUpTo(S, Cardinality(S)) : \A i, j \in DOMAIN s : i # j => s[i] # s[j] }

ClinicSelections == Selections(ClinicNames)

AdmitSelections == Selections({"X", "Not Identified"})

\* update_heatmap with z kept between calls, a module-level array.
update_heatmap_carry(start, end, clinics, admit_type) ==
    /\ call' = [op |-> "update_heatmap", start |-> start, end |-> end,
                clinics |-> clinics, admit_type |-> admit_type]
    /\ out' = generate_patient_volume_heatmap(
                 df, IF call.op = "update_heatmap" THEN out.data.z ELSE z_init,
                 start, end, clinics, admit_type)
    /\ UNCHANGED df

\* update_heatmap with df itself sorted: sort_values(..., inplace=True).
update_heatmap_inplace(start, end, clinics, admit_type) ==
    /\ call' = [op |-> "update_heatmap", start |-> start, end |-> end,
                clinics |-> clinics, admit_type |-> admit_type]
    /\ out' = generate_patient_volume_heatmap(df, z_init, start, end, clinics, admit_type)
    /\ df' = sort_values(df)

\* update_heatmap: both dates are extended by " 00:00:00" and passed on.
update_heatmap(start, end, clinics, admit_type) ==
    /\ call' = [op |-> "update_heatmap", start |-> start, end |-> end,
                clinics |-> clinics, admit_type |-> admit_type]
    /\ out' = generate_patient_volume_heatmap(df, z_init, start, end, clinics, admit_type)
    /\ UNCHANGED df

\* Each total taken over the rows of every selected clinic,
\* df["Clinic Name"].isin(clinics), in place of the rows of its own.
total_records_all_clinics(d, clinics, admit_type) ==
    [i \in DOMAIN clinics |->
        ("Clinic Name" :> clinics[i])
        @@ ("Total Records" :>
              sum_records(SelectSeq(d, LAMBDA r : isin(r["Clinic Name"], clinics)
                                                  /\ isin(r["Admit Source"], admit_type))))]

\* The list comprehension of update_patient_volume_table.
total_records(d, clinics, admit_type) ==
    [i \in DOMAIN clinics |->
        ("Clinic Name" :> clinics[i])
        @@ ("Total Records" :> sum_records(clinic_rows(d, clinics[i], admit_type)))]

update_patient_volume_table(clinics, admit_type) ==
    /\ call' = [op |-> "update_patient_volume_table",
                clinics |-> clinics, admit_type |-> admit_type]
    /\ out' = [raised |-> FALSE,
               data |-> IF clinics # << >> THEN total_records(df, clinics, admit_type)
                        ELSE << >>]
    /\ UNCHANGED df

NoCall == [op |-> "none"]

Heatmap ==
    \E start \in Dates, end \in Dates, clinics \in ClinicSelections,
       admit_type \in AdmitSelections :
        update_heatmap(start, end, clinics, admit_type)

Table ==
    \E clinics \in ClinicSelections, admit_type \in AdmitSelections :
        update_patient_volume_table(clinics, admit_type)

(* One request against a table loaded from any CSV file of the bounds. *)

Init ==
    /\ df \in { Load(csv) : csv \in CsvFiles }
    /\ call = NoCall
    /\ out = [raised |-> FALSE]

Next ==
    \/ call = NoCall /\ Heatmap
    \/ call = NoCall /\ Table

Spec == Init /\ [][Next]_vars

(* A session: any sequence of requests, against a table of clinic A's     *)
(* quarter-past-eight rows of category X that count one record each.      *)

SessionRows ==
    { r \in CsvRows : /\ r["Clinic Name"] = "A"
                      /\ r["Admit Source"] = "X"
                      /\ r["Number of Records"] = 1
                      /\ r["Check-In Time"].clock.I = 8 }

SessionFiles == SeqsUpTo(SessionRows, MaxRecords)

InitSession ==
    /\ df \in { Load(csv) : csv \in SessionFiles }
    /\ call = NoCall
    /\ out = [raised |-> FALSE]

NextSession == Heatmap \/ Table

SpecSession == InitSession /\ [][NextSession]_vars

(* ------------------- the vocabulary of the properties ------------------ *)

IsHeatmap == call.op = "update_heatmap"

IsTable == call.op = "update_patient_volume_table"

InList(v, l) == \E k \in DOMAIN l : l[k] = v

\* The instant "date 00:00:00".
Midnight(date) == date * 86400

RECURSIVE SumCounts(_)
\* The sum of "Number of Records" over the rows of df at the positions I.
SumCounts(I) ==
    IF I = {} THEN 0
    ELSE LET i == CHOOSE j \in I : TRUE
         IN  df[i]["Number of Records"] + SumCounts(I \ {i})

\* Row i is of a selected clinic and a selected category.
Candidate(i) ==
    /\ InList(df[i]["Clinic Name"], call.clinics)
    /\ InList(df[i]["Admit Source"], call.admit_type)

\* Row i satisfies the filter of the heatmap request.
Matched(i) ==
    /\ Candidate(i)
    /\ Midnight(call.start) <= df[i]["Check-In Time"]
    /\ df[i]["Check-In Time"] <= Midnight(call.end)

InColumns(i) == InList(df[i]["Check-In Hour"], x_axis)

\* Seven rows, each with a cell for every label of the x axis.
HasAllCells(z) ==
    /\ DOMAIN z = 0..(Len(day_list) - 1)
    /\ \A r \in DOMAIN z : \A c \in 0..(Len(x_axis) - 1) : c \in DOMAIN z[r]

AllZero(z) == \A r \in DOMAIN z : \A c \in DOMAIN z[r] : z[r][c] = 0

RECURSIVE RowSum(_, _)
RowSum(row, c) == IF c \notin DOMAIN row THEN 0 ELSE row[c] + RowSum(row, c + 1)

RECURSIVE MatrixSumFrom(_, _)
MatrixSumFrom(z, r) ==
    IF r \notin DOMAIN z THEN 0 ELSE RowSum(z[r], 0) + MatrixSumFrom(z, r + 1)

MatrixSum(z) == MatrixSumFrom(z, 0)

RemoveRow(d, i) == SubSeq(d, 1, i - 1) \o SubSeq(d, i + 1, Len(d))

\* Row i adds to the matrix: without it the same request gives another one.
Contributes(i) ==
    generate_patient_volume_heatmap(RemoveRow(df, i), z_init, call.start, call.end,
                                    call.clinics, call.admit_type) # out

\* Row i is in filtered_df of the pass of its clinic.
InSlice(i) ==
    LET f == filtered_df(df, df[i]["Clinic Name"], call.admit_type, call.start, call.end)
    IN  \E j \in DOMAIN f.rows : f.rows[j] = df[i]

IsPermutation(p, q) ==
    /\ Len(p) = Len(q)
    /\ \A k \in DOMAIN p : InList(p[k], q)
    /\ \A k \in DOMAIN q : InList(q[k], p)

(* ------------------------------- claims -------------------------------- *)

\* C1: every cell [d][h] of the heatmap's matrix, d a weekday and h a label
\* of the x axis, is the sum of "Number of Records" over the rows of the
\* table whose clinic is selected, whose category is selected, whose time is
\* between start and end (both included), whose weekday is d and whose hour
\* label is h.
C1_CellIsSumOfMatched ==
    IsHeatmap =>
        /\ ~out.raised
        /\ \A d \in DOMAIN day_list, h \in DOMAIN x_axis :
              out.data.z[d - 1][h - 1] =
                SumCounts({ i \in DOMAIN df : /\ Matched(i)
                                              /\ df[i]["Days of Wk"] = day_list[d]
                                              /\ df[i]["Check-In Hour"] = x_axis[h] })

\* Two clinics are selected and a cell holds three records, of a row that
\* counts one and a row that counts two.
C1_Witness ==
    /\ IsHeatmap
    /\ Len(call.clinics) = 2
    /\ \E r \in 0..6, c \in 0..11 : out.data.z[r][c] = 3

\* C2 as stated: with end date E, a row at exactly E 00:00:00 is left out of
\* the matrix and a row one second earlier (not before start) is in it.
C2_Original ==
    IsHeatmap =>
        \A i \in DOMAIN df :
            Candidate(i) =>
                /\ df[i]["Check-In Time"] = Midnight(call.end) => ~Contributes(i)
                /\ ( /\ df[i]["Check-In Time"] = Midnight(call.end) - 1
                     /\ df[i]["Check-In Time"] >= Midnight(call.start) ) => Contributes(i)

\* C2 amended: the slice start:end keeps a row at exactly E 00:00:00 (start
\* not after it) and a row one second earlier (not before start), and drops
\* every later row; neither of the two rows at the boundary adds to the
\* matrix, their hour labels 12 AM and 11 PM being no columns of it, while a
\* row between the bounds whose hour label is a column does.
C2_BoundaryRows ==
    IsHeatmap =>
        \A i \in DOMAIN df :
            Candidate(i) =>
                LET t == df[i]["Check-In Time"]
                IN  /\ (t = Midnight(call.end) /\ Midnight(call.start) <= t)
                          => (InSlice(i) /\ ~Contributes(i))
                    /\ (t = Midnight(call.end) - 1 /\ Midnight(call.start) <= t)
                          => (InSlice(i) /\ ~Contributes(i))
                    /\ t > Midnight(call.end) => (~InSlice(i) /\ ~Contributes(i))
                    /\ (Midnight(call.start) <= t /\ t <= Midnight(call.end) /\ InColumns(i))
                          => (InSlice(i) /\ Contributes(i))

\* The table holds a selected row at exactly E 00:00:00 and one a second
\* earlier, start being before both.
C2_Witness ==
    /\ IsHeatmap
    /\ call.start < call.end
    /\ \E i, j \in DOMAIN df :
          /\ Candidate(i) /\ df[i]["Check-In Time"] = Midnight(call.end)
          /\ Candidate(j) /\ df[j]["Check-In Time"] = Midnight(call.end) - 1

\* C3 as stated: the matrix has the seven rows Monday..Sunday and exactly as
\* many columns as the x axis has labels, whatever the selection.
C3_Shape ==
    (IsHeatmap /\ ~out.raised) =>
        /\ DOMAIN out.data.z = 0..(Len(day_list) - 1)
        /\ \A r \in DOMAIN out.data.z : DOMAIN out.data.z[r] = 0..(Len(out.data.x) - 1)

\* C4: the totals are as many as the selected clinics and in their order;
\* entry i names clinic i and holds the sum of "Number of Records" over the
\* rows of that clinic with a selected category, whatever their time; no
\* clinic selected, no entry.
C4_Totals ==
    IsTable =>
        /\ ~out.raised
        /\ DOMAIN out.data = DOMAIN call.clinics
        /\ \A k \in DOMAIN call.clinics :
              /\ out.data[k]["Clinic Name"] = call.clinics[k]
              /\ out.data[k]["Total Records"] =
                    SumCounts({ i \in DOMAIN df :
                                  /\ df[i]["Clinic Name"] = call.clinics[k]
                                  /\ InList(df[i]["Admit Source"], call.admit_type) })

\* Two clinics, the second with rows of two days that sum to three records.
C4_Witness ==
    /\ IsTable
    /\ Len(call.clinics) = 2
    /\ out.data[1]["Total Records"] = 0
    /\ out.data[2]["Total Records"] = 3
    /\ \E i, j \in DOMAIN df : df[i]["Days of Wk"] # df[j]["Days of Wk"]

\* C5: with clinics and categories selected, the sum of the matrix's cells
\* is at most the sum of "Number of Records" over the rows the filter
\* selects, and equals it when the hour label of each such row is a column.
C5_MatrixSumBound ==
    (IsHeatmap /\ call.clinics # << >> /\ call.admit_type # << >>) =>
        LET filtered == { i \in DOMAIN df : Matched(i) }
        IN  /\ ~out.raised
            /\ MatrixSum(out.data.z) <= SumCounts(filtered)
            /\ (\A i \in filtered : InColumns(i))
                  => MatrixSum(out.data.z) = SumCounts(filtered)

\* A selected row outside the columns: the matrix sums to less, not to zero.
C5_Witness ==
    /\ IsHeatmap
    /\ call.clinics # << >>
    /\ MatrixSum(out.data.z) = 2
    /\ SumCounts({ i \in DOMAIN df : Matched(i) }) = 3

\* C6: a permutation of the selected clinics gives the same heatmap, and
\* the matrix is, cell by cell, the sum of the matrices of the clinics
\* selected one at a time.
C6_OrderIndependent ==
    (IsHeatmap /\ ~out.raised) =>
        /\ \A p \in ClinicSelections :
              (p # call.clinics /\ IsPermutation(p, call.clinics)) =>
                generate_patient_volume_heatmap(df, z_init, call.start, call.end,
                                                p, call.admit_type) = out
        /\ Len(call.clinics) = 2 =>
              LET first == generate_patient_volume_heatmap(
                               df, z_init, call.start, call.end,
                               << call.clinics[1] >>, call.admit_type).data.z
                  second == generate_patient_volume_heatmap(
                                df, z_init, call.start, call.end,
                                << call.clinics[2] >>, call.admit_type).data.z
              IN  \A r \in DOMAIN out.data.z : \A c \in DOMAIN out.data.z[r] :
                      out.data.z[r][c] = first[r][c] + second[r][c]

\* Rows of the two selected clinics share a cell.
C6_Witness ==
    /\ IsHeatmap
    /\ Len(call.clinics) = 2
    /\ \E i, j \in DOMAIN df :
          /\ df[i]["Clinic Name"] # df[j]["Clinic Name"]
          /\ Matched(i) /\ Matched(j) /\ InColumns(i)
          /\ df[i]["Check-In Time"] = df[j]["Check-In Time"]

\* C7: no clinic selected, or no category selected: the matrix has all its
\* cells and each is zero; no category selected: each selected clinic's
\* total is zero.
C7_EmptySelections ==
    /\ (IsHeatmap /\ (call.clinics = << >> \/ call.admit_type = << >>)) =>
          /\ ~out.raised
          /\ HasAllCells(out.data.z)
          /\ AllZero(out.data.z)
    /\ (IsTable /\ call.admit_type = << >>) =>
          /\ ~out.raised
          /\ DOMAIN out.data = DOMAIN call.clinics
          /\ \A k \in DOMAIN out.data : out.data[k]["Total Records"] = 0

\* No category is selected, and the table holds a row of a selected clinic
\* between the bounds whose hour label is a column.
C7_Witness ==
    /\ IsHeatmap
    /\ call.admit_type = << >>
    /\ \E i \in DOMAIN df :
          /\ InList(df[i]["Clinic Name"], call.clinics)
          /\ InColumns(i)
          /\ Midnight(call.start) <= df[i]["Check-In Time"]
          /\ df[i]["Check-In Time"] <= Midnight(call.end)

\* C8: no request raises. A heatmap has all its cells and a totals table an
\* entry for each selected clinic; selected clinics without a row in the
\* table, and bounds that no row lies between, give zeros.
C8_NeverRaises ==
    /\ ~out.raised
    /\ IsHeatmap =>
          /\ HasAllCells(out.data.z)
          /\ ( \/ \A i \in DOMAIN df : ~InList(df[i]["Clinic Name"], call.clinics)
               \/ \A i \in DOMAIN df : \/ df[i]["Check-In Time"] < Midnight(call.start)
                                        \/ df[i]["Check-In Time"] > Midnight(call.end) )
              => AllZero(out.data.z)
    /\ IsTable =>
          /\ Len(out.data) = Len(call.clinics)
          /\ \A k \in DOMAIN out.data :
                (\A i \in DOMAIN df : df[i]["Clinic Name"] # call.clinics[k])
                    => out.data[k]["Total Records"] = 0

\* The selected clinic has no row in a table of two rows, the later first,
\* and no row lies between the bounds.
C8_Witness ==
    /\ IsHeatmap
    /\ call.clinics = << "B" >>
    /\ call.admit_type # << >>
    /\ Len(df) = 2
    /\ \A i \in DOMAIN df : df[i]["Clinic Name"] = "A"
    /\ df[1]["Check-In Time"] > df[2]["Check-In Time"]
    /\ df[2]["Check-In Time"] > Midnight(call.end)

\* What a request returns when it is the first one after the load.
FirstResult(d, c) ==
    IF c.op = "update_heatmap"
    THEN generate_patient_volume_heatmap(d, z_init, c.start, c.end, c.clinics, c.admit_type)
    ELSE [raised |-> FALSE,
          data |-> IF c.clinics # << >> THEN total_records(d, c.clinics, c.admit_type)
                   ELSE << >>]

C9_Step ==
    /\ call' = call => out' = out
    /\ out' = FirstResult(df, call')

\* C9: whatever requests came before, a request returns what the same
\* request returns as the first one after the load, and a request repeated
\* returns the same again: nothing of a matrix is carried over.
C9_HistoryIndependent == [][C9_Step]_vars

\* A heatmap whose matrix holds a cell of two records, in a session.
C9_Witness ==
    /\ IsHeatmap
    /\ \E r \in 0..6, c \in 0..11 : out.data.z[r][c] = 2

\* C10: no request changes the table: its rows, their order, their fields.
C10_StoreUnchanged == [][df' = df]_vars

\* A heatmap of rows found between the bounds, the later row first in df.
C10_Witness ==
    /\ IsHeatmap
    /\ Len(df) = 2
    /\ df[1]["Check-In Time"] > df[2]["Check-In Time"]
    /\ ~AllZero(out.data.z)

====
